---- MODULE Spec2Model ----
(***************************************************************************)
(* Model of CrosswordCreator (src/generate.py): node consistency, AC-3 and *)
(* backtracking search over the domains of a crossword.                    *)
(*                                                                         *)
(* A word is a sequence of letters; Python's 0-based word[k] is            *)
(* Char(word, k).  A Variable is the record of its four fields.  The       *)
(* Crossword class (variables, overlaps, neighbors) is imported by         *)
(* generate.py from a module that is not part of src/; it is modelled from *)
(* the specification's description of the Puzzle Geometry.                 *)
(***************************************************************************)
EXTENDS Integers, Sequences, FiniteSets, TLC

VARIABLES
    crossword,  \* self.crossword: [variables, words]
    domains,    \* self.domains: variable -> set of words
    pc,         \* position of the running call
    queue,      \* ac3's local work-list of arcs <<x, y>>
    ac3_ret,    \* value returned by ac3: "pending", "True" or "False"
    stack,      \* the active backtrack calls, outermost first
    result,     \* value returned by solve
    word_order, \* the order in which Python iterates the vocabulary's words
    call        \* a direct call of a helper method and what it returned

vars == <<crossword, domains, pc, queue, ac3_ret, stack, result, word_order,
          call>>

----------------------------------------------------------------------------
(* Bounds of the model *)

\* Largest vocabulary (number of words in the words file).
MaxWords == 4

\* Largest vocabulary for which the direct calls of the helper methods are
\* explored.
MaxCallWords == 2

\* Longest list of arcs handed to ac3(arcs).
MaxArcs == 1

\* Letters the vocabulary is written in.
Letters == {"a", "b"}

\* The words a vocabulary is drawn from: every two-letter word, the
\* three-letter words with each pair of end letters, and one pair of
\* three-letter words that differ in the middle letter only.
WordPool ==
    [1..2 -> Letters]
        \cup {w \in [1..3 -> Letters] : w[2] = "a"}
        \cup {<<"a", "b", "a">>}

Vocabularies == {W \in SUBSET WordPool : Cardinality(W) <= MaxWords}

----------------------------------------------------------------------------
(* Puzzle geometry: the Crossword collaborator *)

ACROSS == "across"
DOWN == "down"

Variable(i, j, direction, length) ==
    [i |-> i, j |-> j, direction |-> direction, length |-> length]

\* The cells a variable covers, first cell first.
Cells(v) ==
    [k \in 1..v.length |->
        <<v.i + (IF v.direction = DOWN THEN k - 1 ELSE 0),
          v.j + (IF v.direction = ACROSS THEN k - 1 ELSE 0)>>]

\* overlaps[x, y] is None for variables that share no cell.
None == <<>>

\* The 0-based indices (in x, in y) of the cell x and y share, if any.
SharedCell(x, y) ==
    LET shared == {p \in (1..x.length) \X (1..y.length) :
                      Cells(x)[p[1]] = Cells(y)[p[2]]}
    IN  IF shared = {} THEN None
        ELSE LET p == CHOOSE q \in shared : TRUE IN <<p[1] - 1, p[2] - 1>>

\* The variable sets of the grids the model is run on.
\*   TwoRows:  __    Corner:  ___   Bridge:  ___   Block:  __
\*             ##             ##_            _#_           __
\*             __                            ##_
TwoRows == {Variable(0, 0, ACROSS, 2), Variable(2, 0, ACROSS, 2)}
Corner == {Variable(0, 0, ACROSS, 3), Variable(0, 2, DOWN, 2)}
Bridge == {Variable(0, 0, ACROSS, 3), Variable(0, 0, DOWN, 2),
           Variable(0, 2, DOWN, 3)}
Block == {Variable(0, 0, ACROSS, 2), Variable(1, 0, ACROSS, 2),
          Variable(0, 0, DOWN, 2), Variable(0, 1, DOWN, 2)}

Structures == {TwoRows, Corner, Bridge, Block}

\* The overlaps dictionary, computed once for every pair of variables.
OverlapTable ==
    [p \in (UNION Structures) \X (UNION Structures) |-> SharedCell(p[1], p[2])]

\* crossword.overlaps[x, y]
Overlaps(x, y) == OverlapTable[<<x, y>>]

\* crossword.neighbors(var)
Neighbors(var) ==
    {v \in crossword.variables : v # var /\ Overlaps(v, var) # None}

----------------------------------------------------------------------------
(* Helpers on words, sequences and assignments *)

\* Python's word[k]
Char(word, k) == word[k + 1]

Range(s) == {s[k] : k \in DOMAIN s}

\* The orderings of a finite set as sequences without repetition.
RECURSIVE Orderings(_)
Orderings(S) ==
    IF S = {} THEN {<<>>}
    ELSE UNION {{<<x>> \o s : s \in Orderings(S \ {x})} : x \in S}

\* dict()
EmptyAssignment == [v \in {} |-> <<>>]

\* assignment_copy = assignment.copy(); assignment_copy[variable] = value
Extend(assignment, variable, value) ==
    [v \in DOMAIN assignment \cup {variable} |->
        IF v = variable THEN value ELSE assignment[v]]

----------------------------------------------------------------------------
(* The methods of CrosswordCreator *)

\* Mutant of EnforceNodeConsistencyOf: only the words that are too long for
\* the variable are removed.
EnforceNodeConsistencyTooLongOnly(doms) ==
    [var \in DOMAIN doms |-> {word \in doms[var] : Len(word) <= var.length}]

\* enforce_node_consistency: the domains it leaves.
EnforceNodeConsistencyOf(doms) ==
    [var \in DOMAIN doms |-> {word \in doms[var] : Len(word) = var.length}]

\* Mutant of Revise: it reports a revision whenever an overlap is defined,
\* whether or not a word was removed.
ReviseAlwaysRevised(doms, x, y) ==
    IF Overlaps(x, y) # None
    THEN LET removed == {x_word \in doms[x] :
                           \A y_word \in doms[y] :
                               Char(x_word, Overlaps(x, y)[1])
                                   # Char(y_word, Overlaps(x, y)[2])}
         IN  [domains |-> [doms EXCEPT ![x] = @ \ removed],
              revised |-> TRUE]
    ELSE [domains |-> doms, revised |-> FALSE]

\* Mutant of Revise: the words of y without support in x are removed from
\* y's domain as well.
ReviseBothEnds(doms, x, y) ==
    IF Overlaps(x, y) # None
    THEN LET agree(x_word, y_word) ==
                 Char(x_word, Overlaps(x, y)[1])
                     = Char(y_word, Overlaps(x, y)[2])
             x_kept == {x_word \in doms[x] :
                          \E y_word \in doms[y] : agree(x_word, y_word)}
             y_kept == {y_word \in doms[y] :
                          \E x_word \in doms[x] : agree(x_word, y_word)}
         IN  [domains |-> [doms EXCEPT ![x] = x_kept, ![y] = y_kept],
              revised |-> x_kept # doms[x]]
    ELSE [domains |-> doms, revised |-> FALSE]

\* Mutant of Revise: a word of x is kept only if every word of y agrees
\* with it.
ReviseAgainstAll(doms, x, y) ==
    IF Overlaps(x, y) # None
    THEN LET removed == {x_word \in doms[x] :
                           \E y_word \in doms[y] :
                               Char(x_word, Overlaps(x, y)[1])
                                   # Char(y_word, Overlaps(x, y)[2])}
         IN  [domains |-> [doms EXCEPT ![x] = @ \ removed],
              revised |-> removed # {}]
    ELSE [domains |-> doms, revised |-> FALSE]

\* Mutant of Revise: the words kept for x are picked out of the whole
\* vocabulary instead of x's current domain.
ReviseFromVocabulary(doms, x, y) ==
    IF Overlaps(x, y) # None
    THEN LET kept == {x_word \in crossword.words :
                        \E y_word \in doms[y] :
                            /\ Len(x_word) > Overlaps(x, y)[1]
                            /\ Char(x_word, Overlaps(x, y)[1])
                                  = Char(y_word, Overlaps(x, y)[2])}
         IN  [domains |-> [doms EXCEPT ![x] = kept],
              revised |-> kept # doms[x]]
    ELSE [domains |-> doms, revised |-> FALSE]

\* revise(x, y): the domains it leaves and the value it returns.
Revise(doms, x, y) ==
    IF Overlaps(x, y) # None
    THEN LET x_overlap == Overlaps(x, y)[1]
             y_overlap == Overlaps(x, y)[2]
             matched(x_word) ==
                 \E y_word \in doms[y] :
                     Char(x_word, x_overlap) = Char(y_word, y_overlap)
             removed == {x_word \in doms[x] : ~matched(x_word)}
         IN  [domains |-> [doms EXCEPT ![x] = @ \ removed],
              revised |-> removed # {}]
    ELSE [domains |-> doms, revised |-> FALSE]

\* ac3's initial queue, [(x, y) for x, y in self.crossword.overlaps]: the
\* keys of overlaps in the order they were inserted, which is the order of
\* two nested loops over the variables.
InitialQueue(order) ==
    LET n == Len(order)
        pairs == [k \in 1..(n * n) |->
                     <<order[((k - 1) \div n) + 1], order[((k - 1) % n) + 1]>>]
    IN  SelectSeq(pairs, LAMBDA arc : arc[1] # arc[2])

\* Mutant of Enqueued: the test `z != y` is missing.
EnqueuedEveryNeighbor(zs, x, y) == [k \in 1..Len(zs) |-> <<zs[k], x>>]

\* Mutant of Enqueued: ac3 that never puts an arc back on the queue.
EnqueuedNothing(zs, x, y) == <<>>

\* The arcs ac3 appends after revising x against y, for one iteration order
\* `zs` of neighbors(x).
Enqueued(zs, x, y) ==
    LET arcs == [k \in 1..Len(zs) |-> <<zs[k], x>>]
    IN  SelectSeq(arcs, LAMBDA arc : arc[1] # y)

\* Mutant of Consistent: the check of the neighbors' characters is missing.
ConsistentWithoutNeighbors(assignment) ==
    \A var \in DOMAIN assignment : var.length = Len(assignment[var])

\* consistent(assignment)
Consistent(assignment) ==
    LET words == DOMAIN assignment   \* [value for value in assignment]: keys
    IN  IF Cardinality(words) # Cardinality({value : value \in words})
        THEN FALSE
        ELSE IF \E var \in DOMAIN assignment :
                    var.length # Len(assignment[var])
        THEN FALSE
        ELSE IF \E var \in DOMAIN assignment :
                  \E neighbor \in Neighbors(var) \cap DOMAIN assignment :
                    Char(assignment[var], Overlaps(var, neighbor)[1])
                        # Char(assignment[neighbor], Overlaps(var, neighbor)[2])
        THEN FALSE
        ELSE TRUE

\* order_domain_values: the number of neighbor words `word` rules out.
Eliminated(var, word, assignment) ==
    Cardinality(
        {p \in UNION {{<<neighbor, neighbor_word>> :
                          neighbor_word \in domains[neighbor]} :
                      neighbor \in Neighbors(var) \ DOMAIN assignment} :
            Char(word, Overlaps(var, p[1])[1])
                # Char(p[2], Overlaps(var, p[1])[2])})

UnboundLocalError == "UnboundLocalError"

\* order_domain_values(var, assignment): the lists it can return (sorted is
\* stable, so words with equal counts keep the set's iteration order), or
\* the exception raised at `return sorted_list` when the loop never ran.
OrderDomainValues(var, assignment) ==
    IF domains[var] = {}
    THEN {[raised |-> UnboundLocalError, list |-> <<>>]}
    ELSE LET word_dict == [word \in domains[var] |->
                              Eliminated(var, word, assignment)]
         IN  {[raised |-> "", list |-> s] :
                s \in {t \in Orderings(domains[var]) :
                         \A a, b \in 1..Len(t) :
                            a < b => word_dict[t[a]] <= word_dict[t[b]]}}

\* select_unassigned_variable(assignment): the variables it can return.  The
\* unassigned variables are sorted by domain size, then (stably) by number
\* of neighbors, highest first; variables equal on both keep the iteration
\* order of self.domains.
SelectUnassignedVariable(assignment) ==
    LET choice_dict == DOMAIN domains \ DOMAIN assignment
        degree(v) == Cardinality(Neighbors(v))
        highest == {v \in choice_dict :
                      \A u \in choice_dict : degree(u) <= degree(v)}
    IN  {v \in highest :
            \A u \in highest :
                Cardinality(domains[v]) <= Cardinality(domains[u])}

----------------------------------------------------------------------------
(* The state machine *)

NoCall == [op |-> "none", var |-> <<>>, assignment |-> EmptyAssignment,
           raised |-> "", ret |-> <<>>]

Pending == [status |-> "pending", assignment |-> EmptyAssignment]

\* __init__: every domain starts as a copy of the whole vocabulary.
Init ==
    /\ crossword \in {[variables |-> S, words |-> W] :
                         S \in Structures, W \in Vocabularies}
    /\ domains = [var \in crossword.variables |-> crossword.words]
    /\ pc = "solve"
    /\ queue = <<>>
    /\ ac3_ret = "pending"
    /\ stack = <<>>
    /\ result = Pending
    /\ word_order = <<>>
    /\ call = NoCall

\* solve: self.enforce_node_consistency()
EnforceNodeConsistency ==
    /\ pc = "solve"
    /\ domains' = EnforceNodeConsistencyOf(domains)
    /\ pc' = "ac3_call"
    /\ UNCHANGED <<crossword, queue, ac3_ret, stack, result, word_order, call>>

\* ac3(arcs=None): build the initial queue.
Ac3Begin ==
    /\ pc = "ac3_call"
    /\ \E order \in Orderings(crossword.variables) :
          queue' = InitialQueue(order)
    /\ pc' = "ac3_loop"
    /\ UNCHANGED <<crossword, domains, ac3_ret, stack, result, word_order, call>>

\* ac3: one iteration of the while loop.
Ac3Step ==
    /\ pc = "ac3_loop"
    /\ queue # <<>>
    /\ LET x == Head(queue)[1]
           y == Head(queue)[2]
           r == Revise(domains, x, y)
       IN  /\ domains' = r.domains
           /\ IF r.revised
              THEN IF r.domains[x] = {}
                   THEN /\ queue' = <<>>   \* return False: the queue is dropped
                        /\ ac3_ret' = "False"
                        /\ pc' = "ac3_returned"
                   ELSE /\ \E zs \in Orderings(Neighbors(x)) :
                              queue' = Tail(queue) \o Enqueued(zs, x, y)
                        /\ UNCHANGED <<ac3_ret, pc>>
              ELSE /\ queue' = Tail(queue)
                   /\ UNCHANGED <<ac3_ret, pc>>
    /\ UNCHANGED <<crossword, stack, result, word_order, call>>

\* ac3: the queue is empty, return True.
Ac3Return ==
    /\ pc = "ac3_loop"
    /\ queue = <<>>
    /\ ac3_ret' = "True"
    /\ pc' = "ac3_returned"
    /\ UNCHANGED <<crossword, domains, queue, stack, result, word_order, call>>

\* backtrack(assignment), called with `callers` active: return the complete
\* assignment (every caller returns it in turn, up to solve), or select a
\* variable and start the loop over its domain.
BacktrackEnter(assignment, callers) ==
    IF Cardinality(DOMAIN assignment) = Cardinality(DOMAIN domains)
    THEN /\ result' = [status |-> "assignment", assignment |-> assignment]
         /\ stack' = <<>>
         /\ pc' = "done"
    ELSE /\ \E variable \in SelectUnassignedVariable(assignment) :
              stack' = Append(callers, [assignment |-> assignment,
                                         variable |-> variable,
                                         tried |-> <<>>])
         /\ pc' = "backtrack"
         /\ UNCHANGED result

\* solve: return self.backtrack(dict()); ac3's return value is not read.
\* The search is the first place where the order in which Python iterates a
\* set of words shows.  That order is the order of the set's hash table,
\* which the program does not control; every domain is a copy of the same
\* vocabulary set and removing words does not reorder the remaining ones, so
\* one order of the words serves all domains.
SolveBacktrack ==
    /\ pc = "ac3_returned"
    /\ word_order' \in Orderings(UNION {domains[var] : var \in DOMAIN domains})
    /\ BacktrackEnter(EmptyAssignment, <<>>)
    /\ UNCHANGED <<crossword, domains, queue, ac3_ret, call>>

\* Mutant of Todo: a loop that ends after its first value.
TodoFirstOnly(frame) ==
    IF frame.tried = <<>> THEN domains[frame.variable] ELSE {}

\* The values of a call's loop that are still to come.
Todo(frame) == domains[frame.variable] \ Range(frame.tried)

\* `for value in self.domains[variable]`: the value the loop takes next.
NextValue(frame) ==
    LET first == CHOOSE k \in DOMAIN word_order :
                    /\ word_order[k] \in Todo(frame)
                    /\ \A m \in 1..(k - 1) : word_order[m] \notin Todo(frame)
    IN  word_order[first]

\* Mutant of BacktrackTry: the value is written into the caller's own
\* assignment instead of a copy of it.
BacktrackTryInPlace ==
    /\ pc = "backtrack"
    /\ stack # <<>>
    /\ Todo(stack[Len(stack)]) # {}
    /\ LET frame == stack[Len(stack)]
           value == NextValue(frame)
           assignment_copy == Extend(frame.assignment, frame.variable, value)
           callers == [stack EXCEPT ![Len(stack)].tried = Append(@, value),
                                    ![Len(stack)].assignment = assignment_copy]
       IN  IF Consistent(assignment_copy)
           THEN BacktrackEnter(assignment_copy, callers)
           ELSE /\ stack' = callers
                /\ UNCHANGED <<pc, result>>
    /\ UNCHANGED <<crossword, domains, queue, ac3_ret, word_order, call>>

\* Mutant of BacktrackTry: the recursive call is made without asking
\* consistent first.
BacktrackTryUnchecked ==
    /\ pc = "backtrack"
    /\ stack # <<>>
    /\ Todo(stack[Len(stack)]) # {}
    /\ LET frame == stack[Len(stack)]
           value == NextValue(frame)
           assignment_copy == Extend(frame.assignment, frame.variable, value)
           callers == [stack EXCEPT ![Len(stack)].tried = Append(@, value)]
       IN  BacktrackEnter(assignment_copy, callers)
    /\ UNCHANGED <<crossword, domains, queue, ac3_ret, word_order, call>>

\* Mutant of BacktrackTry: a value that fails the consistent check is also
\* removed from the variable's domain.
BacktrackTryDiscarding ==
    /\ pc = "backtrack"
    /\ stack # <<>>
    /\ Todo(stack[Len(stack)]) # {}
    /\ LET frame == stack[Len(stack)]
           value == NextValue(frame)
           assignment_copy == Extend(frame.assignment, frame.variable, value)
           callers == [stack EXCEPT ![Len(stack)].tried = Append(@, value)]
       IN  IF Consistent(assignment_copy)
           THEN /\ BacktrackEnter(assignment_copy, callers)
                /\ UNCHANGED domains
           ELSE /\ stack' = callers
                /\ domains' = [domains EXCEPT ![frame.variable] = @ \ {value}]
                /\ UNCHANGED <<pc, result>>
    /\ UNCHANGED <<crossword, queue, ac3_ret, word_order, call>>

\* backtrack: one iteration of `for value in self.domains[variable]`.
BacktrackTry ==
    /\ pc = "backtrack"
    /\ stack # <<>>
    /\ Todo(stack[Len(stack)]) # {}
    /\ LET frame == stack[Len(stack)]
           value == NextValue(frame)
       IN     LET assignment_copy ==
                      Extend(frame.assignment, frame.variable, value)
                  callers ==
                      [stack EXCEPT ![Len(stack)].tried = Append(@, value)]
              IN  IF Consistent(assignment_copy)
                  THEN BacktrackEnter(assignment_copy, callers)
                  ELSE /\ stack' = callers
                       /\ UNCHANGED <<pc, result>>
    /\ UNCHANGED <<crossword, domains, queue, ac3_ret, word_order, call>>

\* backtrack: the loop is over, return None.
BacktrackFail ==
    /\ pc = "backtrack"
    /\ stack # <<>>
    /\ Todo(stack[Len(stack)]) = {}
    /\ stack' = SubSeq(stack, 1, Len(stack) - 1)
    /\ IF Len(stack) = 1
       THEN /\ result' = [status |-> "None", assignment |-> EmptyAssignment]
            /\ pc' = "done"
       ELSE UNCHANGED <<pc, result>>
    /\ UNCHANGED <<crossword, domains, queue, ac3_ret, word_order, call>>

Next ==
    \/ EnforceNodeConsistency
    \/ Ac3Begin
    \/ Ac3Step
    \/ Ac3Return
    \/ SolveBacktrack
    \/ BacktrackTry
    \/ BacktrackFail

\* A run of solve() on a freshly constructed CrosswordCreator.
Spec == Init /\ [][Next]_vars

----------------------------------------------------------------------------
(* The propagation phase on its own *)

\* The arcs of the constraint graph: the ordered pairs of variables that
\* overlap.
Arcs ==
    {arc \in crossword.variables \X crossword.variables :
        arc[1] # arc[2] /\ Overlaps(arc[1], arc[2]) # None}

\* The lists of arcs handed to ac3(arcs).
ArcLists == UNION {[1..n -> Arcs] : n \in 0..MaxArcs}

\* ac3(arcs) with a list of arcs: the queue starts as that list.
Ac3BeginArcs ==
    /\ pc = "ac3_call"
    /\ queue' \in ArcLists
    /\ pc' = "ac3_loop"
    /\ UNCHANGED <<crossword, domains, ac3_ret, stack, result, word_order, call>>

\* A freshly constructed CrosswordCreator with a small vocabulary.
InitAc3 == Init /\ Cardinality(crossword.words) <= MaxCallWords

NextAc3 ==
    \/ EnforceNodeConsistency
    \/ Ac3Begin
    \/ Ac3BeginArcs
    \/ Ac3Step
    \/ Ac3Return

\* enforce_node_consistency() and then ac3(), with the default queue or with
\* a list of arcs.  The while loop of ac3 keeps running: whenever an
\* iteration or the return is possible it is eventually taken.
SpecAc3 ==
    InitAc3 /\ [][NextAc3]_vars /\ WF_vars(Ac3Step) /\ WF_vars(Ac3Return)

----------------------------------------------------------------------------
(* Direct calls of the helper methods *)

\* The assignments handed to consistent(): any words of the vocabulary.
AnyAssignments ==
    UNION {[D -> crossword.words] : D \in SUBSET crossword.variables}

\* The assignments handed to order_domain_values(): words of the domains.
DomainAssignments ==
    {a \in AnyAssignments : \A v \in DOMAIN a : a[v] \in domains[v]}

\* consistent(assignment) on a freshly constructed CrosswordCreator.
CallConsistent ==
    /\ pc = "solve"
    /\ Cardinality(crossword.words) <= MaxCallWords
    /\ \E assignment \in AnyAssignments :
          call' = [op |-> "consistent", var |-> <<>>,
                   assignment |-> assignment, raised |-> "",
                   ret |-> <<Consistent(assignment)>>]
    /\ pc' = "called"
    /\ UNCHANGED <<crossword, domains, queue, ac3_ret, stack, result,
                   word_order>>

\* order_domain_values(var, assignment) after enforce_node_consistency() and
\* ac3() have run.
CallOrderDomainValues ==
    /\ pc = "ac3_returned"
    /\ Cardinality(crossword.words) <= MaxCallWords
    /\ \E var \in crossword.variables, assignment \in DomainAssignments :
          \E r \in OrderDomainValues(var, assignment) :
              call' = [op |-> "order_domain_values", var |-> <<var>>,
                       assignment |-> assignment, raised |-> r.raised,
                       ret |-> r.list]
    /\ pc' = "called"
    /\ UNCHANGED <<crossword, domains, queue, ac3_ret, stack, result,
                   word_order>>

\* revise(x, y) on the domains enforce_node_consistency() has left.
CallRevise ==
    /\ pc = "ac3_call"
    /\ \E x, y \in crossword.variables :
          /\ x # y
          /\ LET r == Revise(domains, x, y)
             IN  /\ domains' = r.domains
                 /\ call' = [op |-> "revise", var |-> <<x, y>>,
                             assignment |-> EmptyAssignment, raised |-> "",
                             ret |-> <<r.revised>>]
    /\ pc' = "called"
    /\ UNCHANGED <<crossword, queue, ac3_ret, stack, result, word_order>>

\* enforce_node_consistency() called once more, after solve's own call of
\* it or after ac3() as well.
CallEnforceNodeConsistency ==
    /\ pc \in {"ac3_call", "ac3_returned"}
    /\ domains' = EnforceNodeConsistencyOf(domains)
    /\ call' = [op |-> "enforce_node_consistency", var |-> <<>>,
                assignment |-> EmptyAssignment, raised |-> "", ret |-> <<>>]
    /\ pc' = "called"
    /\ UNCHANGED <<crossword, queue, ac3_ret, stack, result, word_order>>

NextCalls ==
    \/ EnforceNodeConsistency
    \/ Ac3Begin
    \/ Ac3Step
    \/ Ac3Return
    \/ CallEnforceNodeConsistency
    \/ CallRevise
    \/ CallConsistent
    \/ CallOrderDomainValues

\* A client that calls the methods itself: the two propagation phases, then
\* one more method.
SpecCalls == Init /\ [][NextCalls]_vars

----------------------------------------------------------------------------
(* Properties *)

\* What the three constraints of the puzzle say of an assignment.
PairwiseDistinct(a) ==
    \A u, v \in DOMAIN a : u # v => a[u] # a[v]

LengthsFit(a) ==
    \A v \in DOMAIN a : Len(a[v]) = v.length

OverlapsAgree(a) ==
    \A u, v \in DOMAIN a :
        (u # v /\ Overlaps(u, v) # None /\ Len(a[u]) = u.length
               /\ Len(a[v]) = v.length)
            => Char(a[u], Overlaps(u, v)[1]) = Char(a[v], Overlaps(u, v)[2])

\* A solution of the puzzle: a complete assignment meeting all three.
SolutionExists ==
    \E a \in [crossword.variables -> crossword.words] :
        LengthsFit(a) /\ PairwiseDistinct(a) /\ OverlapsAgree(a)

Returned == result.status = "assignment"

EmptyDomainExists == \E v \in DOMAIN domains : domains[v] = {}

\* The domains as node consistency alone leaves them.
NodeConsistentDomains ==
    [v \in crossword.variables |->
        {w \in crossword.words : Len(w) = v.length}]

ArcConsistent ==
    \A x, y \in DOMAIN domains :
        (x # y /\ Overlaps(x, y) # None) =>
            \A w \in domains[x] : \E w2 \in domains[y] :
                Char(w, Overlaps(x, y)[1]) = Char(w2, Overlaps(x, y)[2])

\* C1: whenever solve() returns an assignment, no two different variables of
\* it are mapped to the same word.
C1_ReturnedWordsDistinct ==
    Returned => PairwiseDistinct(result.assignment)

\* C2: whenever solve() returns an assignment, it has an entry for every
\* variable, every word has the length of its variable, and the words of two
\* variables with an overlap agree on the overlap characters.
C2_ReturnedAssignmentFits ==
    Returned =>
        /\ DOMAIN result.assignment = crossword.variables
        /\ LengthsFit(result.assignment)
        /\ OverlapsAgree(result.assignment)

\* C2 witness: solve() has returned an assignment for a grid with crossing
\* variables, out of domains that held words the overlaps rule out.
C2_Witness ==
    /\ Returned
    /\ \E x, y \in crossword.variables : x # y /\ Overlaps(x, y) # None
    /\ \E a \in [crossword.variables -> crossword.words] :
          /\ \A v \in crossword.variables : a[v] \in domains[v]
          /\ ~OverlapsAgree(a)

\* C3: solve() returns the failure value only when no solution exists; if a
\* complete assignment meets the length, distinctness and overlap
\* constraints, solve() returns a complete assignment.
C3_FailureOnlyWithoutSolution ==
    (pc = "done" /\ SolutionExists) =>
        /\ Returned
        /\ DOMAIN result.assignment = crossword.variables

\* C3 witness: a puzzle with a solution, whose domains AC-3 has pruned and
\* whose search had to give up a value, and solve() has returned an
\* assignment.
C3_Witness ==
    /\ pc = "done"
    /\ SolutionExists
    /\ Returned
    /\ domains # NodeConsistentDomains
    /\ \E v \in crossword.variables :
          /\ result.assignment[v] # word_order[1]
          /\ word_order[1] \in domains[v]

\* C4: the backtracking search is never running while some variable's
\* domain is empty or after ac3 has signalled failure.
C4_NoSearchOnEmptyDomain ==
    stack # <<>> => (~EmptyDomainExists /\ ac3_ret # "False")

\* C5: after enforce_node_consistency and an ac3() that returns success the
\* domains are arc consistent.
C5_ArcConsistentAfterAc3 ==
    (pc = "ac3_returned" /\ ac3_ret = "True") => ArcConsistent

\* C5 witness: ac3 has returned success after removing words, and a revised
\* variable has more than one neighbor (arcs were enqueued again).
C5_Witness ==
    /\ pc = "ac3_returned"
    /\ ac3_ret = "True"
    /\ \E x \in crossword.variables :
          /\ domains[x] # NodeConsistentDomains[x]
          /\ Cardinality(Neighbors(x)) > 1

\* C6: ac3() returns True only if no domain is empty when it returns, and
\* False if one or more domains are empty.
C6_Ac3ReturnTellsEmptiness ==
    pc = "ac3_returned" => (ac3_ret = "True" <=> ~EmptyDomainExists)

\* C7: select_unassigned_variable returns an unassigned variable whose
\* domain is smallest among the unassigned variables, and among those the
\* one with the most neighbors.
C7_SelectsMinimumRemainingValues ==
    \A k \in DOMAIN stack :
        LET unassigned == crossword.variables \ DOMAIN stack[k].assignment
            smallest == {v \in unassigned :
                           \A u \in unassigned :
                              Cardinality(domains[v]) <= Cardinality(domains[u])}
        IN  /\ stack[k].variable \in smallest
            /\ \A u \in smallest :
                  Cardinality(Neighbors(u))
                      <= Cardinality(Neighbors(stack[k].variable))

\* The elimination count of a word of var: the words in the domains of the
\* unassigned neighbors of var whose overlap character differs.
EliminationCount(var, w, a) ==
    Cardinality({p \in (Neighbors(var) \ DOMAIN a) \X crossword.words :
                    /\ p[2] \in domains[p[1]]
                    /\ Char(w, Overlaps(var, p[1])[1])
                          # Char(p[2], Overlaps(var, p[1])[2])})

\* C8: at one search node backtrack never tries a value with a larger
\* elimination count before a value with a smaller one.
C8_ValuesTriedInHeuristicOrder ==
    \A k \in DOMAIN stack :
        \A m, n \in DOMAIN stack[k].tried :
            m < n =>
                EliminationCount(stack[k].variable, stack[k].tried[m],
                                 stack[k].assignment)
                    <= EliminationCount(stack[k].variable, stack[k].tried[n],
                                        stack[k].assignment)

\* C9: order_domain_values(var, assignment) returns a list holding each word
\* of domain(var) exactly once, in non-decreasing order of elimination
\* count, for every state of the domains, an empty domain(var) included.
C9_OrderDomainValuesReturnsSortedDomain ==
    call.op = "order_domain_values" =>
        /\ call.raised = ""
        /\ Len(call.ret) = Cardinality(domains[call.var[1]])
        /\ Range(call.ret) = domains[call.var[1]]
        /\ \A m, n \in DOMAIN call.ret :
              m < n =>
                  EliminationCount(call.var[1], call.ret[m], call.assignment)
                      <= EliminationCount(call.var[1], call.ret[n],
                                          call.assignment)

\* C10: consistent(assignment) returns True exactly when the assigned words
\* are pairwise distinct, each has the length of its variable, and assigned
\* neighbors agree on their overlap characters.
C10_ConsistentChecksAllThree ==
    call.op = "consistent" =>
        (call.ret[1] <=> (/\ PairwiseDistinct(call.assignment)
                          /\ LengthsFit(call.assignment)
                          /\ OverlapsAgree(call.assignment)))

\* C11: every step of enforce_node_consistency, revise and ac3 leaves each
\* variable's domain a subset of what it was before the step, and so a
\* subset of the vocabulary; no word is ever added back.
C11_DomainsOnlyShrink ==
    [][/\ DOMAIN domains' = DOMAIN domains
       /\ \A v \in DOMAIN domains :
             /\ domains'[v] \subseteq domains[v]
             /\ domains'[v] \subseteq crossword.words]_vars

\* C11 witness: ac3 has returned on domains from which both
\* enforce_node_consistency and revise have removed words.
C11_Witness ==
    /\ pc = "ac3_returned"
    /\ \E v \in crossword.variables :
          NodeConsistentDomains[v] # crossword.words
    /\ \E v \in crossword.variables :
          /\ domains[v] # NodeConsistentDomains[v]
          /\ domains[v] \subseteq NodeConsistentDomains[v]

\* C12: enforce_node_consistency leaves each variable's domain equal to the
\* words of its previous domain whose length is the variable's length, and
\* a second run of it changes no domain.
C12_NodeConsistencyFiltersOnce ==
    [][/\ ((pc = "solve" /\ pc' = "ac3_call")
              \/ call'.op = "enforce_node_consistency")
           => domains' = [v \in DOMAIN domains |->
                            {w \in domains[v] : Len(w) = v.length}]
       /\ call'.op = "enforce_node_consistency" => domains' = domains]_vars

\* C12 witness: enforce_node_consistency has run a second time on a domain
\* from which its first run removed some words and kept others.
C12_Witness ==
    /\ call.op = "enforce_node_consistency"
    /\ \E v \in crossword.variables :
          /\ NodeConsistentDomains[v] # crossword.words
          /\ NodeConsistentDomains[v] # {}
          /\ domains[v] # {}

\* C13: from the moment solve() invokes backtrack until solve() returns,
\* across every recursive call and helper, no step changes any variable's
\* domain.
C13_SearchLeavesDomains ==
    [][(pc \in {"ac3_returned", "backtrack"}) => domains' = domains]_vars

\* C13 witness: the search is two calls deep over non-empty domains, select
\* has run in both calls, and the inner call has had a value rejected by
\* consistent.
C13_Witness ==
    /\ pc = "backtrack"
    /\ Len(stack) >= 2
    /\ ~EmptyDomainExists
    /\ \E k \in DOMAIN stack[Len(stack)].tried :
          ~Consistent(Extend(stack[Len(stack)].assignment,
                             stack[Len(stack)].variable,
                             stack[Len(stack)].tried[k]))

\* C14: ac3 always terminates.  An iteration that does not shorten the
\* work-list strictly shrinks a domain, and the loop, once entered,
\* eventually returns: success with the work-list empty, or failure with
\* a domain emptied.
C14_Ac3Terminates ==
    /\ [][(pc = "ac3_loop" /\ pc' = "ac3_loop"
              /\ Len(queue') >= Len(queue))
            => \E v \in DOMAIN domains :
                  /\ domains'[v] \subseteq domains[v]
                  /\ domains'[v] # domains[v]]_vars
    /\ (pc = "ac3_loop")
          ~> (/\ pc = "ac3_returned"
              /\ \/ ac3_ret = "True" /\ queue = <<>>
                 \/ ac3_ret = "False" /\ EmptyDomainExists)

\* C14 witness: the loop is running with arcs still queued after a revision
\* shrank the domain of a variable with more than one neighbor.
C14_Witness ==
    /\ pc = "ac3_loop"
    /\ queue # <<>>
    /\ \E x \in crossword.variables :
          /\ domains[x] # NodeConsistentDomains[x]
          /\ domains[x] # {}
          /\ Cardinality(Neighbors(x)) > 1

\* The words of domain(x) that have a word in domain(y) agreeing with them
\* on the overlap of x and y.
Supported(x, y) ==
    {w \in domains[x] :
        \E w2 \in domains[y] :
            Char(w, Overlaps(x, y)[1]) = Char(w2, Overlaps(x, y)[2])}

\* What a step that runs revise(x, y) does to the domains and the puzzle.
ReviseEffect(x, y) ==
    /\ DOMAIN domains' = DOMAIN domains
    /\ domains'[x] = IF Overlaps(x, y) # None THEN Supported(x, y)
                     ELSE domains[x]
    /\ \A v \in DOMAIN domains \ {x} : domains'[v] = domains[v]
    /\ crossword' = crossword

\* C15: revise(x, y) with a defined overlap leaves domain(x) equal to the
\* words of the previous domain(x) that have a word of domain(y) agreeing on
\* the overlap, and returns True exactly when a word was removed; without
\* an overlap it removes nothing and returns False; domain(y), the other
\* domains and the puzzle are unchanged.  Checked for direct calls and for
\* the calls made by ac3's loop.
C15_ReviseKeepsSupportedWords ==
    [][/\ call'.op = "revise" =>
             /\ ReviseEffect(call'.var[1], call'.var[2])
             /\ call'.ret[1]
                   <=> (domains'[call'.var[1]] # domains[call'.var[1]])
             /\ Overlaps(call'.var[1], call'.var[2]) = None
                   => ~call'.ret[1]
       /\ (pc = "ac3_loop" /\ queue # <<>>) =>
             ReviseEffect(Head(queue)[1], Head(queue)[2])]_vars

\* C15 witness: a direct call of revise has returned True after removing
\* some words of domain(x) and keeping others.
C15_Witness ==
    /\ call.op = "revise"
    /\ call.ret[1]
    /\ domains[call.var[1]] # {}
    /\ Overlaps(call.var[1], call.var[2]) # None

\* C16: ac3 takes the arc at the front of the work-list; if revise removed
\* a word and left domain(x) non-empty, the arcs behind it keep their order
\* and exactly the arcs (z, x), z a neighbor of x other than y, are
\* appended after them, each once; if nothing was removed nothing is
\* appended; if domain(x) was left empty ac3 returns False at once and
\* revises no further arc.
C16_FifoAndReenqueue ==
    [][/\ (pc = "ac3_loop" /\ queue # <<>>) =>
             LET x == Head(queue)[1]
                 y == Head(queue)[2]
                 removed == domains'[x] # domains[x]
                 n == Len(queue) - 1
                 appended == {queue'[k] : k \in (n + 1)..Len(queue')}
             IN  /\ ReviseEffect(x, y)
                 /\ (removed /\ domains'[x] # {}) =>
                       /\ pc' = "ac3_loop"
                       /\ SubSeq(queue', 1, n) = Tail(queue)
                       /\ appended = {<<z, x>> : z \in Neighbors(x) \ {y}}
                       /\ Len(queue') = n + Cardinality(Neighbors(x) \ {y})
                 /\ ~removed => (pc' = "ac3_loop" /\ queue' = Tail(queue))
                 /\ (removed /\ domains'[x] = {}) =>
                       (pc' = "ac3_returned" /\ ac3_ret' = "False")
       /\ (pc = "ac3_returned" /\ ac3_ret = "False") =>
             (pc' # "ac3_loop" /\ domains' = domains)]_vars

\* C16 witness: the loop is running after a revision that left a domain
\* smaller but not empty, and an arc is on the work-list twice: it was
\* appended while it was still waiting from the initial list.
C16_Witness ==
    /\ pc = "ac3_loop"
    /\ \E x \in crossword.variables :
          /\ domains[x] # NodeConsistentDomains[x]
          /\ domains[x] # {}
          /\ \E i, j \in DOMAIN queue :
                i < j /\ queue[i] = queue[j] /\ queue[j][2] = x

\* C17: backtrack never changes the assignment it was given.  Every step
\* leaves the assignment and variable of each call that stays active as
\* they were; when a call returns failure its callers are exactly as they
\* were; and the assignment of a new call is its caller's assignment with
\* the caller's variable set to the value being tried.
C17_BacktrackKeepsAssignment ==
    [][/\ \A k \in DOMAIN stack :
             k \in DOMAIN stack' =>
                 /\ stack'[k].assignment = stack[k].assignment
                 /\ stack'[k].variable = stack[k].variable
       /\ (pc = "backtrack" /\ pc' = "backtrack"
              /\ Len(stack') = Len(stack) - 1) =>
             \A k \in DOMAIN stack' : stack'[k] = stack[k]
       /\ (pc = "backtrack" /\ Len(stack') = Len(stack) + 1) =>
             LET caller == stack'[Len(stack)]
             IN  stack'[Len(stack')].assignment
                   = [v \in DOMAIN stack[Len(stack)].assignment
                              \cup {caller.variable} |->
                         IF v = caller.variable
                         THEN caller.tried[Len(caller.tried)]
                         ELSE stack[Len(stack)].assignment[v]]]_vars

\* C17 witness: a call made with a non-empty assignment has had a recursive
\* call return failure and has gone on to a further value.
C17_Witness ==
    /\ pc = "backtrack"
    /\ \E k \in DOMAIN stack :
          /\ stack[k].assignment # EmptyAssignment
          /\ Len(stack[k].tried) >= 2
          /\ Consistent(Extend(stack[k].assignment, stack[k].variable,
                               stack[k].tried[1]))

\* C18: every assignment backtrack is invoked on during solve() passes the
\* consistent check; the first call gets the empty assignment and each
\* recursive call an assignment with exactly one more variable than its
\* caller's (the caller's variable), so the depth of a call, counted from
\* the first one, never exceeds the number of variables.
C18_CallsGetConsistentAssignments ==
    /\ \A k \in DOMAIN stack :
          /\ Consistent(stack[k].assignment)
          /\ Cardinality(DOMAIN stack[k].assignment) = k - 1
          /\ k - 1 <= Cardinality(crossword.variables)
          /\ k = 1 => stack[k].assignment = EmptyAssignment
          /\ k > 1 =>
                /\ stack[k - 1].variable \notin DOMAIN stack[k - 1].assignment
                /\ DOMAIN stack[k].assignment
                      = DOMAIN stack[k - 1].assignment
                            \cup {stack[k - 1].variable}
    /\ Returned =>
          /\ Consistent(result.assignment)
          /\ Cardinality(DOMAIN result.assignment)
                = Cardinality(crossword.variables)

\* C18 witness: the search is as deep as it gets with calls still active,
\* three calls or more, and the innermost call has had a value rejected by
\* consistent.
C18_Witness ==
    /\ pc = "backtrack"
    /\ Len(stack) >= 3
    /\ Len(stack) = Cardinality(crossword.variables)
    /\ \E k \in DOMAIN stack[Len(stack)].tried :
          ~Consistent(Extend(stack[Len(stack)].assignment,
                             stack[Len(stack)].variable,
                             stack[Len(stack)].tried[k]))

\* The complete assignments that take every word from the domains ac3 is
\* called on (the words of the vocabulary that have the variable's length)
\* and agree on every overlap.
SolutionsBeforeAc3 ==
    {a \in [crossword.variables -> crossword.words] :
        LengthsFit(a) /\ OverlapsAgree(a)}

\* C19: AC-3 pruning preserves solutions.  If a complete assignment takes
\* each word from its variable's domain as ac3 finds it and agrees on every
\* overlap, then ac3 returns True and after it each of those words is still
\* in its variable's domain.
C19_Ac3PreservesSolutions ==
    pc = "ac3_returned" =>
        \A a \in SolutionsBeforeAc3 :
            /\ ac3_ret = "True"
            /\ \A v \in crossword.variables : a[v] \in domains[v]

\* C19 witness: ac3 has returned after removing words from the domains of a
\* puzzle with crossing variables that has such an assignment.
C19_Witness ==
    /\ pc = "ac3_returned"
    /\ SolutionsBeforeAc3 # {}
    /\ domains # NodeConsistentDomains
    /\ \E x \in crossword.variables : Cardinality(Neighbors(x)) > 1

====
